---- MODULE Spec2Model ----
(***************************************************************************)
(* Model of the actor runtime of src/src/actors.rs: the registry of        *)
(* actors, the per-actor mailbox channel, the run channel of ready actor   *)
(* ids, the dispatcher threads started by ActorSystem::create, and the     *)
(* producers calling send.                                                 *)
(*                                                                         *)
(* The channel type (SeccSender / SeccReceiver) comes from the `secc`      *)
(* crate, whose source is not part of src/; its operations are modelled    *)
(* from the mailbox section of the specification (section 4.1).            *)
(*                                                                         *)
(* The pooled queue of src/src/pooled_queue.rs is modelled next to it, with *)
(* a specification of its own (SpecQueue): the node storage, the queue and  *)
(* pool lists, the counters of Core, one thread calling Enqueue::push and   *)
(* one thread calling Dequeue::pop.  The actor runtime does not use it.     *)
(***************************************************************************)
EXTENDS Integers, Sequences, FiniteSets, TLC

\* ------------------------------------------------------------- bounds
\* Largest thread_pool_size passed to ActorSystem::create.
MaxThreadPoolSize == 4
\* Largest run_channel_size passed to ActorSystem::create.
MaxRunChannelSize == 2
\* Number of actors the embedding program spawns at most.
NumActors == 2
\* Number of producer threads calling send.
NumProducers == 1
\* Total number of send calls made by the producers.
MaxSends == 3

\* Largest thread_pool_size and number of sends of the single-actor programs.
ScenarioThreadPoolSize == 5
ScenarioSends == 4
\* Largest thread_pool_size of the skip-then-reset program.
SkipResetThreadPoolSize == 7
\* Largest capacity passed to pooled_queue::create.
MaxCapacity == 2
\* Total number of push calls made on the pooled queue.
MaxPushes == 6

\* ---------------------------------------------------- program constants
\* ActorSystem::create(10, 1) in tests::test_spawn_with_closure.
TestRunChannelSize == 10
\* secc::create::<Arc<Message>>(32) in Actor::new.
MailboxCapacity == 32

Aids == 1..NumActors
Producers == 1..NumProducers

\* Values of locals that are out of scope.
NoAid == 0
NoMessage == <<0, 0>>
NoStatus == "-"

\* enum Status
Status == {"Processed", "Skipped", "ResetSkip"}

VARIABLES
    thread_pool_size,   \* argument of ActorSystem::create
    run_channel_size,   \* argument of ActorSystem::create
    program,            \* the embedding program: the handler closure it passes to
                        \* spawn, how many actors it spawns, how many sends it makes
    actors_by_aid,      \* ActorSystem.actors_by_aid: the ids in the registry
    mailbox,            \* per actor: the channel behind ActorId.sender / Actor.receiver
    state,              \* per actor: the state captured by the handler (invocation count)
    runq,               \* the run channel: ActorSystem.sender / ActorSystem.receiver
    wpc,                \* per dispatcher thread: its position in the closure
    waid,               \* per dispatcher thread: `aid`
    wmsg,               \* per dispatcher thread: `message` in Actor::receive
    wstatus,            \* per dispatcher thread: `result` in Actor::receive
    ppc,                \* per producer: its position in send
    ptarget,            \* per producer: `aid` of the send in progress
    sends,              \* number of send calls made so far
    prod_enqueues,      \* per actor: run channel pushes made by schedule (history)
    history,            \* per actor: handler deliveries and pops, in order (history)
    core,               \* pooled queue: Core (capacity, length, enqueued, dequeued)
    nodes,              \* pooled queue: Core.nodes, per node its value and next pointer
    enqueue,            \* pooled queue: Enqueue (pool_head, queue_tail) and the push in progress
    dequeue,            \* pooled queue: Dequeue (pool_tail, queue_head) and the pop in progress
    qlog                \* pooled queue: values pushed and values popped, in order (history)

\* The variables of the pooled queue.
qvars == <<core, nodes, enqueue, dequeue, qlog>>

\* The variables of the actor runtime.
avars == <<thread_pool_size, run_channel_size, program, actors_by_aid, mailbox,
           state, runq, wpc, waid, wmsg, wstatus, ppc, ptarget, sends,
           prod_enqueues, history>>

vars == <<thread_pool_size, run_channel_size, program, actors_by_aid, mailbox,
          state, runq, wpc, waid, wmsg, wstatus, ppc, ptarget, sends,
          prod_enqueues, history, core, nodes, enqueue, dequeue, qlog>>

\* The dispatcher threads: (1..thread_pool_size).map(...) in ActorSystem::create.
\* A Rust range a..b excludes b.
Workers == 1..(thread_pool_size - 1)

\* ------------------------------------------------- the channel (mailbox)
\* A channel holds its messages in arrival order, the number of messages
\* hidden behind the skip cursor, and the sent / received counters.
EmptyChannel == [queue |-> <<>>, skip |-> 0, sent |-> 0, received |-> 0]

Pending(ch) == Len(ch.queue)

Receivable(ch) == Len(ch.queue) - ch.skip

\* The sequence s without its i-th element.
RemoveAt(s, i) == [j \in 1..(Len(s) - 1) |-> IF j < i THEN s[j] ELSE s[j + 1]]

ChannelPush(ch, m) == [ch EXCEPT !.queue = Append(@, m), !.sent = @ + 1]

\* peek: the first message past the skip cursor.
ChannelPeek(ch) == ch.queue[ch.skip + 1]

\* pop: removes the message peek would return; Err(Empty) changes nothing.
ChannelPop(ch) ==
    IF Receivable(ch) = 0 THEN ch
    ELSE [ch EXCEPT !.queue = RemoveAt(@, ch.skip + 1), !.received = @ + 1]

\* skip: moves the cursor past the message peek would return.
ChannelSkip(ch) ==
    IF Receivable(ch) = 0 THEN ch ELSE [ch EXCEPT !.skip = @ + 1]

\* reset_skip: clears the cursor.
ChannelResetSkip(ch) == [ch EXCEPT !.skip = 0]

\* ------------------------------------------------------------ handlers
\* The statuses a handler of the given kind may return on its n-th
\* invocation (n counted from 1).  A handler of the kind "faulty" may also
\* panic ("Panic") or call spawn on its actor system ("Spawn").
HandlerResults(kind, n) ==
    CASE kind = "processed" -> {"Processed"}
      [] kind = "faulty" -> {"Processed", "Panic", "Spawn"}
      [] kind = "skip_reset" ->
            IF n <= 2 THEN {"Skipped"}
            ELSE IF n = 3 THEN {"ResetSkip"} ELSE {"Processed"}
      [] OTHER -> Status

\* ------------------------------------------- the pooled queue: its data
\* null_mut(): the next pointer of the last node of a list.
Nil == -1
\* Option::None in Node.value; the values pushed are 1, 2, ...
NoValue == 0

\* A usize is kept as the integer nearest to 0 that is congruent to it modulo
\* 2^64: 0, 1, 2, ... stand for themselves and -1, -2, ... for 2^64 - 1,
\* 2^64 - 2, ...  UsizeMax is usize::MAX.
UsizeMax == -1

\* AtomicUsize::fetch_add(1) and fetch_sub(1) wrap around.
WrappingAdd1(x) == x + 1
\* A fetch_sub that leaves the counter as it is.
WrappingSub1Mutant(x) == x
WrappingSub1(x) == x - 1

\* x <= y on usize values.
UsizeLeq(x, y) ==
    IF (x < 0) = (y < 0) THEN x <= y ELSE y < 0

\* old + 1 on a usize: the addition overflows on usize::MAX, which panics in
\* a build with overflow checks and yields 0 in a build without.
\* Results of push and pop.
NoResult == [tag |-> "none", val |-> 0]
Ok(v) == [tag |-> "Ok", val |-> v]
Err(e) == [tag |-> e, val |-> 0]
Panicked == [tag |-> "panic", val |-> 0]
CheckedAdd1(x) == IF x = UsizeMax THEN {Panicked, Ok(0)} ELSE {Ok(x + 1)}

\* pooled_queue::create(capacity): capacity + 2 nodes.  Node 0 is the only
\* node of the queue list; nodes 1 .. capacity + 1 form the pool list, each
\* pointing at the node allocated before it, node 1 last.
Create(capacity) ==
    /\ core = [capacity |-> capacity, length |-> 0, enqueued |-> 0, dequeued |-> 0]
    /\ nodes = [n \in 0..(capacity + 1) |->
                  [value |-> NoValue, next |-> IF n <= 1 THEN Nil ELSE n - 1]]
    /\ enqueue = [pool_head |-> capacity + 1, queue_tail |-> 0, pc |-> "idle",
                  value |-> NoValue, next_pool_head |-> Nil, stored |-> 0,
                  result |-> NoResult]
    /\ dequeue = [pool_tail |-> 1, queue_head |-> 0, pc |-> "idle",
                  next_queue_head |-> Nil, taken |-> NoValue, pending |-> {},
                  result |-> NoResult]
    /\ qlog = [pushed |-> <<>>, popped |-> <<>>, calls |-> 0, empty_at |-> Nil]

\* The actor runtime creates no pooled queue.
NoQueue ==
    /\ core = [capacity |-> 0, length |-> 0, enqueued |-> 0, dequeued |-> 0]
    /\ nodes = <<>>
    /\ enqueue = [pool_head |-> Nil, queue_tail |-> Nil, pc |-> "idle",
                  value |-> NoValue, next_pool_head |-> Nil, stored |-> 0,
                  result |-> NoResult]
    /\ dequeue = [pool_tail |-> Nil, queue_head |-> Nil, pc |-> "idle",
                  next_queue_head |-> Nil, taken |-> NoValue, pending |-> {},
                  result |-> NoResult]
    /\ qlog = [pushed |-> <<>>, popped |-> <<>>, calls |-> 0, empty_at |-> Nil]

\* ---------------------------------------------------------------- Init
\* The state after ActorSystem::create(rcs, tps): the dispatcher threads are
\* started and wait on the run channel; no actor is spawned yet.
InitWith(tps, rcs, prog) ==
    /\ thread_pool_size = tps
    /\ run_channel_size = rcs
    /\ program = prog
    /\ actors_by_aid = {}
    /\ mailbox = [a \in Aids |-> EmptyChannel]
    /\ state = [a \in Aids |-> 0]
    /\ runq = <<>>
    /\ wpc = [w \in 1..(tps - 1) |-> "receive_await"]
    /\ waid = [w \in 1..(tps - 1) |-> NoAid]
    /\ wmsg = [w \in 1..(tps - 1) |-> NoMessage]
    /\ wstatus = [w \in 1..(tps - 1) |-> NoStatus]
    /\ ppc = [p \in Producers |-> "idle"]
    /\ ptarget = [p \in Producers |-> NoAid]
    /\ sends = 0
    /\ prod_enqueues = [a \in Aids |-> 0]
    /\ history = [a \in Aids |-> <<>>]
    /\ NoQueue

\* A program whose handler may return any Status, spawning NumActors actors and
\* making MaxSends sends.
Init ==
    \E tps \in 1..MaxThreadPoolSize, rcs \in 1..MaxRunChannelSize :
        InitWith(tps, rcs, [processor |-> "any", actors |-> NumActors, sends |-> MaxSends])

\* --------------------------------------------------------------- spawn
\* A dispatcher thread holds the registry read guard from the lookup to the
\* end of the Ok arm.
HoldsReadGuard(w) ==
    wpc[w] \in {"peek", "handler", "spawn", "pop", "check", "send_await"}

\* A spawn that replaces the registry by one holding the new actor alone.
SpawnMutant ==
    /\ \A w \in Workers : ~HoldsReadGuard(w)
    /\ Cardinality(actors_by_aid) < program.actors
    /\ actors_by_aid' = {Cardinality(actors_by_aid) + 1}
    /\ UNCHANGED <<qvars, thread_pool_size, run_channel_size, program, mailbox, state,
                   runq, wpc, waid, wmsg, wstatus, ppc, ptarget, sends,
                   prod_enqueues, history>>

\* spawn: takes the write lock, creates the actor with a fresh id and an
\* empty 32-slot channel, inserts it.
Spawn ==
    /\ \A w \in Workers : ~HoldsReadGuard(w)
    /\ Cardinality(actors_by_aid) < program.actors
    /\ actors_by_aid' = actors_by_aid \cup {Cardinality(actors_by_aid) + 1}
    /\ UNCHANGED <<qvars, thread_pool_size, run_channel_size, program, mailbox, state,
                   runq, wpc, waid, wmsg, wstatus, ppc, ptarget, sends,
                   prod_enqueues, history>>

\* ---------------------------------------------------------------- send
\* send, first half: sender.send_await(message) blocks while the mailbox is
\* full, pushes, and returns the receivable count after the push.  The message
\* is identified by its global push number and its producer.
Send(p, a) ==
    /\ ppc[p] = "idle"
    /\ a \in actors_by_aid
    /\ sends < program.sends
    /\ Pending(mailbox[a]) < MailboxCapacity
    /\ sends' = sends + 1
    /\ mailbox' = [mailbox EXCEPT ![a] = ChannelPush(@, <<sends + 1, p>>)]
    /\ IF Receivable(mailbox'[a]) = 1
       THEN ppc' = [ppc EXCEPT ![p] = "schedule"] /\ ptarget' = [ptarget EXCEPT ![p] = a]
       ELSE UNCHANGED <<ppc, ptarget>>
    /\ UNCHANGED <<qvars, thread_pool_size, run_channel_size, program, actors_by_aid,
                   state, runq, wpc, waid, wmsg, wstatus, prod_enqueues, history>>

\* ActorSystem::schedule: aid.system.sender.send(aid), the non-blocking send;
\* its Result is not looked at, so on a full run channel nothing is pushed.
Schedule(p) ==
    /\ ppc[p] = "schedule"
    /\ IF Len(runq) < run_channel_size
       THEN /\ runq' = Append(runq, ptarget[p])
            /\ prod_enqueues' = [prod_enqueues EXCEPT ![ptarget[p]] = @ + 1]
       ELSE UNCHANGED <<runq, prod_enqueues>>
    /\ ppc' = [ppc EXCEPT ![p] = "idle"]
    /\ ptarget' = [ptarget EXCEPT ![p] = NoAid]
    /\ UNCHANGED <<qvars, thread_pool_size, run_channel_size, program, actors_by_aid,
                   mailbox, state, wpc, waid, wmsg, wstatus, sends, history>>

\* --------------------------------------------------- dispatcher thread
\* receiver.receive_await(): blocks until the run channel has an id, takes it.
\* The threads parked on the run channel are interchangeable (they run the
\* same closure and hold no state yet), so the lowest-numbered parked thread
\* stands for whichever one the channel hands the id to.
ReceiveAwait(w) ==
    /\ wpc[w] = "receive_await"
    /\ \A v \in Workers : wpc[v] = "receive_await" => w <= v
    /\ runq # <<>>
    /\ waid' = [waid EXCEPT ![w] = Head(runq)]
    /\ runq' = Tail(runq)
    /\ wpc' = [wpc EXCEPT ![w] = "lookup"]
    /\ UNCHANGED <<qvars, thread_pool_size, run_channel_size, program, actors_by_aid,
                   mailbox, state, wmsg, wstatus, ppc, ptarget, sends,
                   prod_enqueues, history>>

\* actors_by_aid.read().unwrap(); guard.get(aid).unwrap(): the thread panics
\* and ends when the id is not in the registry.
Lookup(w) ==
    /\ wpc[w] = "lookup"
    /\ IF waid[w] \in actors_by_aid
       THEN wpc' = [wpc EXCEPT ![w] = "peek"] /\ UNCHANGED waid
       ELSE wpc' = [wpc EXCEPT ![w] = "done"] /\ waid' = [waid EXCEPT ![w] = NoAid]
    /\ UNCHANGED <<qvars, thread_pool_size, run_channel_size, program, actors_by_aid,
                   mailbox, state, runq, wmsg, wstatus, ppc, ptarget, sends,
                   prod_enqueues, history>>

\* A receive that invokes the handler whatever peek returned.
PeekMutant(w) ==
    /\ wpc[w] = "peek"
    /\ wpc' = [wpc EXCEPT ![w] = "handler"]
    /\ wmsg' = [wmsg EXCEPT ![w] = IF Receivable(mailbox[waid[w]]) = 0
                                     THEN NoMessage
                                     ELSE ChannelPeek(mailbox[waid[w]])]
    /\ UNCHANGED <<qvars, thread_pool_size, run_channel_size, program, actors_by_aid,
                   mailbox, state, runq, waid, wstatus, ppc, ptarget, sends,
                   prod_enqueues, history>>

\* Actor::receive: self.receiver.peek(); on Err the turn returns (the history
\* records the turn as "spurious").
Peek(w) ==
    /\ wpc[w] = "peek"
    /\ IF Receivable(mailbox[waid[w]]) = 0
       THEN /\ wpc' = [wpc EXCEPT ![w] = "check"]
            /\ history' = [history EXCEPT
                              ![waid[w]] = Append(@, <<"spurious", NoMessage, NoStatus>>)]
            /\ UNCHANGED wmsg
       ELSE /\ wpc' = [wpc EXCEPT ![w] = "handler"]
            /\ wmsg' = [wmsg EXCEPT ![w] = ChannelPeek(mailbox[waid[w]])]
            /\ UNCHANGED history
    /\ UNCHANGED <<qvars, thread_pool_size, run_channel_size, program, actors_by_aid,
                   mailbox, state, runq, waid, wstatus, ppc, ptarget, sends,
                   prod_enqueues>>

\* Where the dispatcher thread is after the handler call.  A status returns
\* into Actor::receive.  A panic unwinds the thread: nothing in the closure
\* catches it, the read guard is dropped and the thread has ended.  A call of
\* spawn asks for the write lock of the registry while the calling thread holds
\* its read guard: RwLock::write then blocks for ever or panics, whichever the
\* platform's lock does.
HandlerExit(st) ==
    CASE st = "Panic" -> {"panicked"}
      [] st = "Spawn" -> {"spawn", "panicked"}
      [] OTHER -> {"pop"}

\* Actor::receive: (*self.handler)(self.aid.clone(), message).  The handler
\* runs to completion in one step: it touches only the state it captured.
Handler(w) ==
    /\ wpc[w] = "handler"
    /\ \E st \in HandlerResults(program.processor, state[waid[w]] + 1) :
        /\ wstatus' = [wstatus EXCEPT ![w] = st]
        /\ history' = [history EXCEPT ![waid[w]] = Append(@, <<"deliver", wmsg[w], st>>)]
        /\ \E pc \in HandlerExit(st) : wpc' = [wpc EXCEPT ![w] = pc]
    /\ state' = [state EXCEPT ![waid[w]] = @ + 1]
    /\ UNCHANGED <<qvars, thread_pool_size, run_channel_size, program, actors_by_aid,
                   mailbox, runq, waid, wmsg, ppc, ptarget, sends, prod_enqueues>>

\* Actor::receive: the match on the handler's result.  Processed pops,
\* Skipped skips, ResetSkip only resets the cursor; an Err from the channel is
\* printed and the turn returns.
ApplyStatus(ch, st) ==
    CASE st = "Processed" -> ChannelPop(ch)
      [] st = "Skipped" -> ChannelSkip(ch)
      [] OTHER -> ChannelResetSkip(ch)

\* The message a pop of ch removes, NoMessage when it returns Err(Empty).
Popped(ch) == IF Receivable(ch) = 0 THEN NoMessage ELSE ChannelPeek(ch)

QueueResult(w) ==
    /\ wpc[w] = "pop"
    /\ mailbox' = [mailbox EXCEPT ![waid[w]] = ApplyStatus(@, wstatus[w])]
    /\ history' = IF wstatus[w] = "Processed"
                  THEN [history EXCEPT ![waid[w]] =
                            Append(@, <<"pop", wmsg[w], Popped(mailbox[waid[w]])>>)]
                  ELSE history
    /\ wpc' = [wpc EXCEPT ![w] = "check"]
    /\ wmsg' = [wmsg EXCEPT ![w] = NoMessage]
    /\ wstatus' = [wstatus EXCEPT ![w] = NoStatus]
    /\ UNCHANGED <<qvars, thread_pool_size, run_channel_size, program, actors_by_aid,
                   state, runq, waid, ppc, ptarget, sends, prod_enqueues>>

\* A dispatcher thread that re-enqueues the actor after every turn.
CheckMutant(w) ==
    /\ wpc[w] = "check"
    /\ wpc' = [wpc EXCEPT ![w] = "send_await"]
    /\ UNCHANGED <<qvars, thread_pool_size, run_channel_size, program, actors_by_aid,
                   mailbox, state, runq, waid, wmsg, wstatus, ppc, ptarget, sends,
                   prod_enqueues, history>>

\* if actor.receiver.receivable() > 0 { ... }; otherwise the closure ends,
\* and with it the thread: there is no loop around the match.
Check(w) ==
    /\ wpc[w] = "check"
    /\ IF Receivable(mailbox[waid[w]]) > 0
       THEN wpc' = [wpc EXCEPT ![w] = "send_await"] /\ UNCHANGED waid
       ELSE wpc' = [wpc EXCEPT ![w] = "done"] /\ waid' = [waid EXCEPT ![w] = NoAid]
    /\ UNCHANGED <<qvars, thread_pool_size, run_channel_size, program, actors_by_aid,
                   mailbox, state, runq, wmsg, wstatus, ppc, ptarget, sends,
                   prod_enqueues, history>>

\* sender.send_await(aid.clone()): blocks while the run channel is full, then
\* pushes the id at the back; the closure and the thread end.
Requeue(w) ==
    /\ wpc[w] = "send_await"
    /\ Len(runq) < run_channel_size
    /\ runq' = Append(runq, waid[w])
    /\ wpc' = [wpc EXCEPT ![w] = "done"]
    /\ waid' = [waid EXCEPT ![w] = NoAid]
    /\ UNCHANGED <<qvars, thread_pool_size, run_channel_size, program, actors_by_aid,
                   mailbox, state, wmsg, wstatus, ppc, ptarget, sends,
                   prod_enqueues, history>>

\* ---------------------------------------------------------------- Next
Next ==
    \/ Spawn
    \/ \E p \in Producers, a \in Aids : Send(p, a)
    \/ \E p \in Producers : Schedule(p)
    \/ \E w \in Workers : ReceiveAwait(w)
    \/ \E w \in Workers : Lookup(w)
    \/ \E w \in Workers : Peek(w)
    \/ \E w \in Workers : Handler(w)
    \/ \E w \in Workers : QueueResult(w)
    \/ \E w \in Workers : Check(w)
    \/ \E w \in Workers : Requeue(w)

Spec == Init /\ [][Next]_vars

\* The largest thread_pool_size of any of the programs.
LargestPoolSize ==
    CHOOSE n \in {MaxThreadPoolSize, ScenarioThreadPoolSize, SkipResetThreadPoolSize} :
        \A m \in {MaxThreadPoolSize, ScenarioThreadPoolSize, SkipResetThreadPoolSize} : m <= n

\* One step of dispatcher thread w.
WorkerStep(w) ==
    /\ w \in Workers
    /\ \/ ReceiveAwait(w) \/ Lookup(w) \/ Peek(w) \/ Handler(w)
       \/ QueueResult(w) \/ Check(w) \/ Requeue(w)

\* The operating system schedules every thread: a dispatcher thread that can
\* take its next step eventually takes it, and a producer inside send finishes
\* the call.  Whether the program spawns or sends again is up to the program.
Fairness ==
    /\ \A w \in 1..(LargestPoolSize - 1) : WF_vars(WorkerStep(w))
    /\ \A p \in Producers : WF_vars(Schedule(p))

\* The program of tests::test_spawn_with_closure, for every pool size up to
\* ScenarioThreadPoolSize: one actor whose handler always returns Processed,
\* on a system with a run channel of 10 slots.
InitProcessed ==
    \E tps \in 1..ScenarioThreadPoolSize :
        InitWith(tps, TestRunChannelSize,
                 [processor |-> "processed", actors |-> 1, sends |-> ScenarioSends])

SpecProcessed == InitProcessed /\ [][Next]_vars /\ Fairness

\* The skip-then-reset program: one actor whose handler returns Skipped for
\* its first two deliveries, ResetSkip for the third and Processed afterwards;
\* the producer sends three messages A, B, C.
InitSkipReset ==
    \E tps \in 1..SkipResetThreadPoolSize :
        InitWith(tps, TestRunChannelSize,
                 [processor |-> "skip_reset", actors |-> 1, sends |-> 3])

SpecSkipReset == InitSkipReset /\ [][Next]_vars

\* The round-robin program: ActorSystem::create(10, 2), which starts one
\* dispatcher thread and whose run channel never fills, NumActors actors whose
\* handler always returns Processed and ScenarioSends sends, so that the
\* actors can be ready together.
InitRoundRobin ==
    InitWith(2, TestRunChannelSize,
             [processor |-> "processed", actors |-> NumActors,
              sends |-> ScenarioSends])

SpecRoundRobin == InitRoundRobin /\ [][Next]_vars /\ Fairness

\* A program whose handler may return Processed, panic or call spawn, spawning
\* NumActors actors and making MaxSends sends.
InitFaulty ==
    \E tps \in 1..MaxThreadPoolSize, rcs \in 1..MaxRunChannelSize :
        InitWith(tps, rcs, [processor |-> "faulty", actors |-> NumActors,
                            sends |-> MaxSends])

SpecFaulty == InitFaulty /\ [][Next]_vars

\* ------------------------------------------------- pooled queue: push
\* Enqueue::push is called with the next value: the lock is taken and the
\* next pointer of the pool head is loaded; a null pointer means the pool has
\* no spare node and the call returns QueueFull.
PushCall ==
    /\ enqueue.pc = "idle"
    /\ qlog.calls < MaxPushes
    /\ qlog' = [qlog EXCEPT !.calls = @ + 1]
    /\ LET next_pool_head == nodes[enqueue.pool_head].next
       IN  IF next_pool_head = Nil
           THEN enqueue' = [enqueue EXCEPT !.result = Err("QueueFull")]
           ELSE enqueue' = [enqueue EXCEPT !.pc = "clear_next",
                                           !.value = qlog.calls + 1,
                                           !.next_pool_head = next_pool_head,
                                           !.result = NoResult]
    /\ UNCHANGED <<avars, core, nodes, dequeue>>

\* pool_head.next.store(nil).
PushClearNext ==
    /\ enqueue.pc = "clear_next"
    /\ nodes' = [nodes EXCEPT ![enqueue.pool_head].next = Nil]
    /\ enqueue' = [enqueue EXCEPT !.pc = "set_value"]
    /\ UNCHANGED <<avars, core, dequeue, qlog>>

\* queue_tail.value = Some(value).
PushSetValue ==
    /\ enqueue.pc = "set_value"
    /\ nodes' = [nodes EXCEPT ![enqueue.queue_tail].value = enqueue.value]
    /\ enqueue' = [enqueue EXCEPT !.pc = "publish"]
    /\ UNCHANGED <<avars, core, dequeue, qlog>>

\* queue_tail.next.store(self.pool_head, Release): the value is in the queue.
\* stored is the number of values pushed and not yet returned by a pop.
PushPublish ==
    /\ enqueue.pc = "publish"
    /\ nodes' = [nodes EXCEPT ![enqueue.queue_tail].next = enqueue.pool_head]
    /\ qlog' = [qlog EXCEPT !.pushed = Append(@, enqueue.value)]
    /\ enqueue' = [enqueue EXCEPT !.pc = "advance",
                                  !.stored = Len(qlog.pushed) + 1 - Len(qlog.popped)]
    /\ UNCHANGED <<avars, core, dequeue>>

\* self.queue_tail = self.pool_head; self.pool_head = next_pool_head.
PushAdvance ==
    /\ enqueue.pc = "advance"
    /\ enqueue' = [enqueue EXCEPT !.pc = "count",
                                  !.queue_tail = enqueue.pool_head,
                                  !.pool_head = enqueue.next_pool_head]
    /\ UNCHANGED <<avars, core, nodes, dequeue, qlog>>

\* self.core.enqueued.fetch_add(1).
PushCount ==
    /\ enqueue.pc = "count"
    /\ core' = [core EXCEPT !.enqueued = WrappingAdd1(@)]
    /\ enqueue' = [enqueue EXCEPT !.pc = "length"]
    /\ UNCHANGED <<avars, nodes, dequeue, qlog>>

\* let old_lenth = self.core.length.fetch_add(1); Ok(old_lenth + 1).  A panic
\* unwinds through the lock guard and poisons the lock of the enqueue side.
PushLength ==
    /\ enqueue.pc = "length"
    /\ core' = [core EXCEPT !.length = WrappingAdd1(@)]
    /\ \E r \in CheckedAdd1(core.length) :
          enqueue' = [enqueue EXCEPT !.pc = IF r = Panicked THEN "panicked" ELSE "idle",
                                     !.result = r]
    /\ UNCHANGED <<avars, nodes, dequeue, qlog>>

\* -------------------------------------------------- pooled queue: pop
\* Dequeue::pop is called: the lock is taken and the next pointer of the
\* queue head is loaded (Acquire); a null pointer means the queue holds no
\* value and the call returns QueueEmpty; empty_at then records how many values
\* had been pushed.
PopCall ==
    /\ dequeue.pc = "idle"
    /\ LET next_queue_head == nodes[dequeue.queue_head].next
       IN  IF next_queue_head = Nil
           THEN /\ dequeue' = [dequeue EXCEPT !.result = Err("QueueEmpty")]
                /\ qlog' = [qlog EXCEPT !.empty_at = Len(qlog.pushed)]
           ELSE /\ dequeue' = [dequeue EXCEPT !.pc = "take",
                                                !.next_queue_head = next_queue_head,
                                                !.result = NoResult]
                /\ UNCHANGED qlog
    /\ UNCHANGED <<avars, core, nodes, enqueue>>

\* queue_head.value.take().unwrap(): the value is read; unwrap panics on None,
\* which poisons the lock of the dequeue side.  Three stores follow in the
\* code: None into the value (the take), nil into queue_head.next (Relaxed)
\* and self.queue_head into pool_tail.next (Relaxed).
PopTake ==
    /\ dequeue.pc = "take"
    /\ LET value == nodes[dequeue.queue_head].value
       IN  IF value = NoValue
           THEN dequeue' = [dequeue EXCEPT !.pc = "panicked", !.result = Panicked]
           ELSE dequeue' = [dequeue EXCEPT !.pc = "stores", !.taken = value,
                                           !.pending = {"value", "next", "link"}]
    /\ UNCHANGED <<avars, core, nodes, enqueue, qlog>>

\* One of the three stores reaches memory.  None of them is a Release store
\* and the push side reads pool_head.next with a Relaxed load, so the thread
\* in push can see them in any order.
PopStore ==
    /\ dequeue.pc = "stores"
    /\ \E s \in dequeue.pending :
          /\ dequeue' = [dequeue EXCEPT !.pending = @ \ {s}]
          /\ nodes' = CASE s = "value" ->
                             [nodes EXCEPT ![dequeue.queue_head].value = NoValue]
                        [] s = "next" ->
                             [nodes EXCEPT ![dequeue.queue_head].next = Nil]
                        [] s = "link" ->
                             [nodes EXCEPT ![dequeue.pool_tail].next = dequeue.queue_head]
    /\ UNCHANGED <<avars, core, enqueue, qlog>>

\* self.pool_tail = self.queue_head; self.queue_head = next_queue_head.
PopAdvance ==
    /\ dequeue.pc = "stores"
    /\ dequeue.pending = {}
    /\ dequeue' = [dequeue EXCEPT !.pc = "count",
                                  !.pool_tail = dequeue.queue_head,
                                  !.queue_head = dequeue.next_queue_head]
    /\ UNCHANGED <<avars, core, nodes, enqueue, qlog>>

\* self.common.dequeued.fetch_add(1).
PopCount ==
    /\ dequeue.pc = "count"
    /\ core' = [core EXCEPT !.dequeued = WrappingAdd1(@)]
    /\ dequeue' = [dequeue EXCEPT !.pc = "length"]
    /\ UNCHANGED <<avars, nodes, enqueue, qlog>>

\* self.common.length.fetch_sub(1); Ok(result).
PopLength ==
    /\ dequeue.pc = "length"
    /\ core' = [core EXCEPT !.length = WrappingSub1(@)]
    /\ dequeue' = [dequeue EXCEPT !.pc = "idle", !.result = Ok(dequeue.taken)]
    /\ qlog' = [qlog EXCEPT !.popped = Append(@, dequeue.taken), !.empty_at = Nil]
    /\ UNCHANGED <<avars, nodes, enqueue>>

\* ------------------------------------------ pooled queue: specification
NextQueue ==
    \/ PushCall
    \/ PushClearNext
    \/ PushSetValue
    \/ PushPublish
    \/ PushAdvance
    \/ PushCount
    \/ PushLength
    \/ PopCall
    \/ PopTake
    \/ PopStore
    \/ PopAdvance
    \/ PopCount
    \/ PopLength

\* No actor system is running next to the queue.
NoActorSystem ==
    /\ thread_pool_size = 1
    /\ run_channel_size = 1
    /\ program = [processor |-> "any", actors |-> 0, sends |-> 0]
    /\ actors_by_aid = {}
    /\ mailbox = [a \in Aids |-> EmptyChannel]
    /\ state = [a \in Aids |-> 0]
    /\ runq = <<>>
    /\ wpc = <<>>
    /\ waid = <<>>
    /\ wmsg = <<>>
    /\ wstatus = <<>>
    /\ ppc = [p \in Producers |-> "idle"]
    /\ ptarget = [p \in Producers |-> NoAid]
    /\ sends = 0
    /\ prod_enqueues = [a \in Aids |-> 0]
    /\ history = [a \in Aids |-> <<>>]

\* A queue of some capacity, one thread that pushes the values 1, 2, ... and
\* one thread that pops.
InitQueue ==
    /\ NoActorSystem
    /\ \E capacity \in 1..MaxCapacity : Create(capacity)

SpecQueue == InitQueue /\ [][NextQueue]_vars

\* ====================================================== claims C1 .. C10

\* The dispatcher threads executing Actor::receive on actor a: from the peek
\* to the pop / skip / reset_skip.
InTurn(a) == {w \in Workers : waid[w] = a /\ wpc[w] \in {"peek", "handler", "pop"}}

\* The dispatcher threads holding actor a: from taking it off the run channel
\* until the post-turn receivable() check is done.
Holding(a) ==
    {w \in Workers : waid[w] = a /\ wpc[w] \in {"lookup", "peek", "handler", "pop", "check"}}

\* The number of entries of the run channel that are actor a.
InRunQueue(a) == Cardinality({i \in 1..Len(runq) : runq[i] = a})

\* C1: for every actor, no two executions of a turn (Actor::receive) on that
\* actor overlap in time: at most one dispatcher thread is inside receive on it.
C1_AtMostOneTurn == \A a \in Aids : Cardinality(InTurn(a)) <= 1

\* C2: for each actor, the number of its entries in the run channel plus the
\* number of dispatcher threads holding it is at most 1.
C2_ScheduledAtMostOnce ==
    \A a \in Aids : InRunQueue(a) + Cardinality(Holding(a)) <= 1

\* C5: ActorSystem::create(run_channel_size, thread_pool_size) starts exactly
\* thread_pool_size dispatcher threads.
C5_WorkerCount == Cardinality(DOMAIN wpc) = thread_pool_size

\* C6: whenever a send raised an actor's deliverable count from 0 to 1, then
\* when that send returns (schedule is done) the actor's id is in the run
\* channel or held by a dispatcher thread, also when the run channel was full.
C6_ScheduleNeverDrops ==
    [][\A p \in Producers, a \in Aids :
          (ppc[p] = "schedule" /\ ptarget[p] = a /\ ppc'[p] = "idle")
              => (InRunQueue(a) >= 1 \/ Holding(a) # {})']_vars

\* No dispatcher thread has taken actor a off the run channel so far.
NoTurnYet(a) == history[a] = <<>> /\ \A w \in Workers : waid[w] # a

\* C7: when k >= 1 messages were sent to an actor whose mailbox was empty and
\* no dispatcher thread has taken a turn on it, the producer side has made
\* exactly one run-channel enqueue of that actor (the send whose push
\* returned 1 made it, the others made none).
C7_OneProducerEnqueue ==
    \A a \in Aids :
        (/\ mailbox[a].sent >= 1
         /\ NoTurnYet(a)
         /\ \A p \in Producers : ptarget[p] # a)
            => prod_enqueues[a] = 1

\* The positions of the deliver events / pop events in a history.
Deliveries(h) == {i \in 1..Len(h) : h[i][1] = "deliver"}
Pops(h) == {i \in 1..Len(h) : h[i][1] = "pop"}

\* C8: an actor processes a message only once: the handler returns Processed
\* for a message at most once, a message is removed from the mailbox at most
\* once, and a pop issued for one message never removes a different message.
C8_ProcessedOnce ==
    \A a \in Aids :
        LET h == history[a] IN
        /\ \A i, j \in Deliveries(h) :
              (i < j /\ h[i][3] = "Processed" /\ h[j][3] = "Processed")
                  => h[i][2] # h[j][2]
        /\ \A i, j \in Pops(h) :
              (i < j /\ h[i][3] # NoMessage) => h[i][3] # h[j][3]
        /\ \A i \in Pops(h) : h[i][3] \in {h[i][2], NoMessage}

\* Nothing can happen any more unless the program sends or spawns: no producer
\* is inside send and every dispatcher thread has ended or is blocked on the
\* run channel.
Quiescent ==
    /\ \A p \in Producers : ppc[p] = "idle"
    /\ \A w \in Workers :
          \/ wpc[w] \in {"done", "panicked", "spawn"}
          \/ wpc[w] = "receive_await" /\ runq = <<>>
          \/ wpc[w] = "send_await" /\ Len(runq) >= run_channel_size

\* C4: with a handler that always returns Processed, every message accepted by
\* send is handled exactly once: in a quiescent state, for every actor,
\* received = sent, pending = 0 and the handler was invoked once per message.
C4_AllHandledAtQuiescence ==
    Quiescent =>
        \A a \in actors_by_aid :
            /\ mailbox[a].received = mailbox[a].sent
            /\ Pending(mailbox[a]) = 0
            /\ state[a] = mailbox[a].sent

\* C3: no lost wakeup: on a system that has a dispatcher thread, whenever an
\* actor's deliverable count is > 0, eventually some dispatcher thread executes
\* a turn on that actor (the 10-slot run channel never fills here).
C3_NoLostWakeup ==
    \A a \in Aids :
        (Workers # {} /\ Receivable(mailbox[a]) > 0) ~> (InTurn(a) # {})

\* The messages pushed into actor a's mailbox so far: those still in it and
\* those a pop removed.
MessagesOf(a) ==
    ({mailbox[a].queue[i] : i \in 1..Len(mailbox[a].queue)}
        \cup {history[a][i][3] : i \in Pops(history[a])}) \ {NoMessage}

\* The messages delivered to the handler so far.
Delivered(h) == {h[i][2] : i \in Deliveries(h)}

\* Delivery i is the first delivery of its message.
FirstDelivery(h, i) == \A j \in Deliveries(h) : j < i => h[j][2] # h[i][2]

\* C9: FIFO per producer: leaving re-deliveries aside, the messages a producer
\* pushed into a mailbox are delivered to the handler in the order of its
\* pushes: first deliveries come in push order, and no message is delivered
\* while an earlier message of the same producer was never delivered.
C9_FifoPerProducer ==
    \A a \in Aids :
        LET h == history[a] IN
        /\ \A i, j \in Deliveries(h) :
              (/\ i < j /\ FirstDelivery(h, i) /\ FirstDelivery(h, j)
               /\ h[i][2][2] = h[j][2][2])
                  => h[i][2][1] < h[j][2][1]
        /\ \A m \in MessagesOf(a), d \in Delivered(h) :
              (m[2] = d[2] /\ m[1] < d[1]) => m \in Delivered(h)

\* The deliveries of a history, in order: the messages handed to the handler.
DeliveryOrder(h) ==
    LET d == SelectSeq(h, LAMBDA e : e[1] = "deliver")
    IN [i \in 1..Len(d) |-> d[i][2]]

\* s is a prefix of t.
IsPrefix(s, t) == Len(s) <= Len(t) /\ \A i \in 1..Len(s) : s[i] = t[i]

\* The three messages the producer sends, in sending order.
MsgA == <<1, 1>>
MsgB == <<2, 1>>
MsgC == <<3, 1>>

C11_ResetSkipLikeProcessed ==
    [][\A w \in Workers :
          (/\ wpc[w] = "pop" /\ wpc'[w] # "pop"
           /\ wstatus[w] = "ResetSkip"
           /\ mailbox[waid[w]].skip = 0)
              => mailbox'[waid[w]] = ApplyStatus(mailbox[waid[w]], "Processed")]_vars

\* C12: in every reachable state of the pooled queue, a push and a pop in
\* progress included, the length counter is at most the capacity.
C12_LengthWithinCapacity == UsizeLeq(core.length, core.capacity)

\* C13: a push never panics, and a successful push returns a count of stored
\* values that the queue held once the value was in: at least 1 (the value
\* itself) and at most the number stored when the value was published.
C13_PushReturnsStored ==
    /\ enqueue.result.tag # "panic"
    /\ enqueue.result.tag = "Ok"
          => /\ UsizeLeq(1, enqueue.result.val)
             /\ UsizeLeq(enqueue.result.val, enqueue.stored)

\* C14: the values returned by successful pops are, in order, a prefix of the
\* values pushed: none lost, duplicated or reordered.
C14_PoppedPrefixOfPushed == IsPrefix(qlog.popped, qlog.pushed)

\* No push and no pop is in progress.
QueueQuiescent ==
    /\ enqueue.pc \in {"idle", "panicked"}
    /\ dequeue.pc \in {"idle", "panicked"}

\* C15: whenever no push and no pop is in progress, the length counter has not
\* wrapped and enqueued = dequeued + length.  (The pooled queue has no skip
\* cursor: every stored value is deliverable.)
C15_CountersAtQuiescence ==
    QueueQuiescent => /\ core.length >= 0
                      /\ core.enqueued = core.dequeued + core.length

\* A quiescent state reached after the length counter had wrapped under a
\* push (which returned 0) and at least one pop has completed.
C15_QuiescentAfterWrap ==
    /\ QueueQuiescent
    /\ enqueue.result = Ok(0)
    /\ core.dequeued >= 1

\* The step in which push is called.
PushCalled == enqueue.pc = "idle" /\ qlog'.calls = qlog.calls + 1

\* C16: a push called while capacity values are stored and no pop is in
\* progress returns QueueFull, and a push that returns QueueFull leaves the
\* counters, every node (values and next pointers) and the four list pointers
\* as they were.
C16_PushOnFull ==
    [][PushCalled =>
         /\ (dequeue.pc = "idle" /\ Len(qlog.pushed) - Len(qlog.popped) = core.capacity)
               => enqueue'.result = Err("QueueFull")
         /\ enqueue'.result = Err("QueueFull")
               => /\ core' = core
                  /\ nodes' = nodes
                  /\ enqueue'.pool_head = enqueue.pool_head
                  /\ enqueue'.queue_tail = enqueue.queue_tail
                  /\ dequeue' = dequeue]_vars

\* The step in which pop is called.
PopCalled == dequeue.pc = "idle" /\ dequeue' # dequeue

\* C17: a pop that returns QueueEmpty leaves the counters, every node and the
\* four list pointers as they were, and the next pop that succeeds after it
\* returns the first value pushed after it.
C17_PopOnEmpty ==
    [][/\ (PopCalled /\ dequeue'.result = Err("QueueEmpty"))
            => /\ core' = core
               /\ nodes' = nodes
               /\ dequeue'.pool_tail = dequeue.pool_tail
               /\ dequeue'.queue_head = dequeue.queue_head
               /\ enqueue' = enqueue
       /\ (dequeue.pc = "length" /\ dequeue'.pc = "idle" /\ qlog.empty_at # Nil)
            => /\ Len(qlog.pushed) > qlog.empty_at
               /\ dequeue'.result = Ok(qlog.pushed[qlog.empty_at + 1])]_vars

\* C18: a dispatcher thread whose handler panicked has not terminated.
C18_WorkerSurvivesPanic ==
    \A w \in Workers : wstatus[w] = "Panic" => wpc[w] # "panicked"

\* C19: a dispatcher thread whose handler calls spawn does not hold the
\* registry read guard, so the write lock spawn asks for is not blocked by the
\* thread's own turn, and the call does not end in a panic of the lock.
C19_SpawnInHandlerNotBlocked ==
    \A w \in Workers :
        wstatus[w] = "Spawn" => (~HoldsReadGuard(w) /\ wpc[w] # "panicked")

\* The step in which dispatcher thread w starts a turn on an actor whose
\* mailbox has no deliverable message.
SpuriousTurn(w) ==
    /\ wpc[w] = "peek"
    /\ wpc'[w] # "peek"
    /\ Receivable(mailbox[waid[w]]) = 0

\* C20: a turn started on an actor whose deliverable count is 0 returns without
\* invoking the handler and leaves the mailbox (queue, counters, skip cursor)
\* and the actor state unchanged.
C20_SpuriousTurnIsNoOp ==
    [][\A w \in Workers :
          SpuriousTurn(w) =>
              /\ wpc'[w] = "check"
              /\ mailbox' = mailbox
              /\ state' = state
              /\ Deliveries(history'[waid[w]]) = Deliveries(history[waid[w]])]_vars

\* A spurious turn has been made on an actor all of whose messages had been
\* handled.
C20_SpuriousTurnMade ==
    \E a \in Aids :
        /\ Len(history[a]) >= 1
        /\ history[a][Len(history[a])][1] = "spurious"
        /\ Deliveries(history[a]) # {}
        /\ Pending(mailbox[a]) = 0

\* ====================================================== claims C21 .. C27

\* C21: a dispatcher thread that has finished a turn (and the optional
\* re-enqueue) is back waiting on the run channel.
C21_WorkerReturnsToRunQueue ==
    [][\A w \in Workers :
          (/\ wpc[w] \in {"check", "send_await"}
           /\ wpc'[w] \notin {"check", "send_await"})
              => wpc'[w] = "receive_await"]_vars

\* C22: at the check after a turn the dispatcher thread goes on to re-enqueue
\* the actor exactly when the mailbox has a deliverable message, and an actor
\* gets a new entry in the run channel only from a thread that found so at its
\* check or from a send whose push returned 1.
C22_RequeueIffDeliverable ==
    [][/\ \A w \in Workers :
            (wpc[w] = "check" /\ wpc'[w] # "check")
               => /\ (wpc'[w] = "send_await") <=> (Receivable(mailbox[waid[w]]) > 0)
                  /\ runq' = runq
       /\ \A a \in Aids :
            InRunQueue(a)' > InRunQueue(a)
               => \/ \E w \in Workers :
                        wpc[w] = "send_await" /\ waid[w] = a /\ wpc'[w] = "done"
                  \/ \E p \in Producers :
                        ppc[p] = "schedule" /\ ptarget[p] = a /\ ppc'[p] = "idle"]_vars

\* The first message of an actor was Skipped, which left nothing deliverable:
\* the thread ended without a re-enqueue, and the actor is in the run channel
\* again, once, through the schedule of a later send.
C22_ScheduledAgainBySend ==
    \E a \in Aids :
        /\ Len(history[a]) = 1
        /\ history[a][1][1] = "deliver"
        /\ history[a][1][3] = "Skipped"
        /\ mailbox[a].skip = 1
        /\ Receivable(mailbox[a]) = 1
        /\ \A w \in Workers : waid[w] # a
        /\ prod_enqueues[a] = 2
        /\ InRunQueue(a) = 1

\* C23: with one dispatcher thread and two actors, while one actor has its turn
\* and the other waits in the run channel, the other gets the next turn.
C23_TurnsAlternate ==
    \A a \in Aids : \A b \in Aids \ {a} :
        (InTurn(a) # {} /\ InRunQueue(b) > 0) ~> (InTurn(b) # {})

\* C24: every actor id in the run channel, and every id a dispatcher thread
\* has taken from it and is about to look up, is in the registry.
C24_LookupResolves ==
    /\ \A i \in 1..Len(runq) : runq[i] \in actors_by_aid
    /\ \A w \in Workers : wpc[w] = "lookup" => waid[w] \in actors_by_aid

\* A dispatcher thread has looked up the actor spawned last and found it.
C24_LookupDone ==
    \E w \in Workers :
        /\ wpc[w] = "peek"
        /\ waid[w] = NumActors
        /\ waid[w] \in actors_by_aid

\* C25: in every reachable state of the pooled queue the length counter has
\* not wrapped below 0 and dequeued <= enqueued.
C25_NoUnderflow ==
    /\ core.length >= 0
    /\ core.dequeued <= core.enqueued

\* C26: whenever pop has found the next pointer of the queue head non-null,
\* the queue head node holds a value, so the unwrap of pop does not panic.
C26_UnwrapNeverFails ==
    /\ dequeue.pc = "take" => nodes[dequeue.queue_head].value # NoValue
    /\ dequeue.result # Panicked

\* The nodes reached from node n by following the next pointers, n first, up
\* to k nodes.
RECURSIVE Walk(_, _)
Walk(n, k) ==
    IF n = Nil \/ k = 0 THEN <<>> ELSE <<n>> \o Walk(nodes[n].next, k - 1)

\* The queue list, from the queue head, and the pool list, from the pool
\* head.  A list that does not end within the allocated nodes is cut one node
\* after their number.
QueueList == Walk(dequeue.queue_head, core.capacity + 3)
PoolList == Walk(enqueue.pool_head, core.capacity + 3)

\* The set of the elements of sequence s.
Range(s) == {s[i] : i \in 1..Len(s)}

\* C27: when no push and no pop is in progress, the capacity + 2 nodes are
\* partitioned between the queue list and the pool list, the queue list runs
\* from the queue head to the queue tail and has length + 1 nodes, and the
\* pool list runs from the pool head to the pool tail and has
\* capacity - length + 1 nodes (so neither list is empty).
C27_NodesPartitioned ==
    (enqueue.pc = "idle" /\ dequeue.pc = "idle")
        => /\ Range(QueueList) \cup Range(PoolList) = DOMAIN nodes
           /\ Range(QueueList) \cap Range(PoolList) = {}
           /\ Len(QueueList) = core.length + 1
           /\ Len(PoolList) = core.capacity - core.length + 1
           /\ QueueList[Len(QueueList)] = enqueue.queue_tail
           /\ PoolList[Len(PoolList)] = dequeue.pool_tail

====
